---------------------------- MODULE Spec2Model ----------------------------
(***************************************************************************)
(* State-machine model of the searchable multi-select dropdown control    *)
(* (client/src/SearchableMultiselect.jsx).                                 *)
(*                                                                         *)
(* Strings are sequences of one-character strings, so that trim,          *)
(* toLowerCase and includes are computed rather than assumed.  Array       *)
(* indices are 0-based as in the source: element i of a JavaScript array   *)
(* is element i+1 of the sequence.  Pixel coordinates are integers.        *)
(*                                                                         *)
(* A prop change is one action: the render, the effect clean-ups and the   *)
(* effects of that commit run together, as the component's own code sees   *)
(* them.                                                                   *)
(***************************************************************************)
EXTENDS Integers, Sequences, FiniteSets, TLC

VARIABLES
    \* props (host-owned)
    values, options, dataUrl, label, selected, multiSelect, maxPanelHeight,
    \* component state (useState)
    open, query, hoverIdx, loading, loadError, effectiveOptions, panelStyle,
    \* environment
    fetches,        \* load() calls whose promise has not settled yet
    loads,          \* number of load() calls so far
    onChangeCalls,  \* arguments of onChange calls the host has not handled yet
    rect,           \* toggleRef.current.getBoundingClientRect()
    innerWidth, innerHeight,   \* window.innerWidth / window.innerHeight
    raf,            \* pending requestAnimationFrame callback (its closure)
    listeners,      \* number of registered listeners per event type
    mounted,        \* the component is mounted
    \* history
    lastEvent,      \* the event handler or load() step that ran last
    commits,        \* fetch results committed to state since the fetch effect last ran
    \* the page around the Sector dropdown
    appFilters,     \* App: filters
    panelIndustries,   \* FiltersPanel: filters.selectedIndustries
    provider,       \* DataProvider: csvUrl, rows, loading, error
    csvLoads,       \* loadCsv() calls whose promise has not settled yet
    csvCount        \* number of loadCsv() calls so far

props == <<values, options, dataUrl, label, selected, multiSelect, maxPanelHeight>>
state == <<open, query, hoverIdx, loading, loadError, effectiveOptions, panelStyle>>
env   == <<fetches, loads, onChangeCalls, rect, innerWidth, innerHeight, raf,
          listeners, mounted>>
hist  == <<lastEvent, commits>>
appVars == <<appFilters, panelIndustries>>
dataVars == <<provider, csvLoads, csvCount>>
page  == <<appVars, dataVars>>
vars  == <<props, state, env, hist, page>>

-----------------------------------------------------------------------------
(* Bounds of the model *)

MaxOpts == 3        \* longest option list in the filter model
MaxQueryLen == 2    \* longest search text
MaxSelOpts == 3     \* longest option list in the selection and navigation models
MaxCfgLen == 1      \* longest response array in the fetch model
MaxLoads == 2       \* load() calls in one run
MaxPayloadLen == 2  \* longest array in a response body
MaxK == 3
MaxIndustries == 2
MaxCsvLoads == 3           \* pixel coordinates and sizes go up to Step * MaxK
Step == 10          \* grid of the pixel coordinates

-----------------------------------------------------------------------------
(* Strings *)

NULL == "null"      \* JavaScript null, for the string-valued props and state

Chars == {"a", "b", "A", " "}

\* String.prototype.toLowerCase, one character
lowerChar(c) ==
    IF c = "A" THEN "a" ELSE IF c = "B" THEN "b" ELSE IF c = "O" THEN "o" ELSE c

\* String.prototype.toLowerCase
toLowerCase(s) == [i \in 1..Len(s) |-> lowerChar(s[i])]

isSpace(c) == c = " "

RECURSIVE trimStart(_)
trimStart(s) ==
    IF s # <<>> /\ isSpace(Head(s)) THEN trimStart(Tail(s)) ELSE s

RECURSIVE trimEnd(_)
trimEnd(s) ==
    IF s # <<>> /\ isSpace(s[Len(s)]) THEN trimEnd(SubSeq(s, 1, Len(s) - 1)) ELSE s

\* String.prototype.trim
trim(s) == trimEnd(trimStart(s))

\* String.prototype.includes
includes(s, q) ==
    \E i \in 0..(Len(s) - Len(q)) : SubSeq(s, i + 1, i + Len(q)) = q

\* All strings over Chars of length at most n
RECURSIVE StringsUpTo(_)
StringsUpTo(n) ==
    IF n = 0 THEN {<<>>}
    ELSE LET shorter == StringsUpTo(n - 1)
         IN shorter \cup {Append(s, c) : s \in shorter, c \in Chars}

\* All sequences over S of length at most n
RECURSIVE SeqsUpTo(_, _)
SeqsUpTo(S, n) ==
    IF n = 0 THEN {<<>>}
    ELSE LET shorter == SeqsUpTo(S, n - 1)
         IN shorter \cup {Append(s, x) : s \in shorter, x \in S}

\* Array.prototype.includes
arrayIncludes(arr, x) == \E i \in 1..Len(arr) : arr[i] = x

\* Array.from(new Set(arr)): first occurrences, in order
RECURSIVE uniqueOf(_)
uniqueOf(arr) ==
    IF arr = <<>> THEN <<>>
    ELSE LET init == uniqueOf(SubSeq(arr, 1, Len(arr) - 1))
             last == arr[Len(arr)]
         IN IF arrayIncludes(init, last) THEN init ELSE Append(init, last)

-----------------------------------------------------------------------------
(* SearchFilter: the memoized `filtered` list *)

\* A loop that stops one element early
filterOptionsSkipLast(opts, qry) ==
    LET q == toLowerCase(trim(qry))
        match(o) == includes(toLowerCase(o), q)
    IN IF opts = <<>> THEN opts
       ELSE SelectSeq(SubSeq(opts, 1, Len(opts) - 1), match)

\* A case-sensitive comparison of the option
filterOptionsCaseSensitive(opts, qry) ==
    LET q == toLowerCase(trim(qry))
        match(o) == includes(o, q)
    IN IF q = <<>> THEN opts ELSE SelectSeq(opts, match)

filterOptions(opts, qry) ==
    LET q == toLowerCase(trim(qry))
        match(o) == includes(toLowerCase(o), q)
    IN IF q = <<>> THEN opts ELSE SelectSeq(opts, match)

filtered == filterOptions(effectiveOptions, query)

-----------------------------------------------------------------------------
(* Input sets *)

OptionPool == {<<"A", "b">>, <<"b", " ", "a">>, <<"b">>}

\* A nullable array prop: JavaScript null, or an array
NullArray == [isArray |-> FALSE, items |-> <<>>]
ArrayOf(items) == [isArray |-> TRUE, items |-> items]

Queries == StringsUpTo(MaxQueryLen)

SelPool == {<<"A", "b">>, <<"a">>, <<"b">>}
SelQueries == {<<>>, <<"a">>, <<"b">>}

NavPool == {<<"a">>, <<"b">>}

\* Selections the Industry dropdown can propose
IndustryPool == {<<"x">>, <<"y">>}
IndustryLists == SeqsUpTo(IndustryPool, MaxIndustries)

CfgPool == {<<"A", "b">>, <<"a">>}
CfgLists == SeqsUpTo(CfgPool, MaxCfgLen)
CfgValues == {NullArray, ArrayOf(<<>>), ArrayOf(<<<<"A", "b">>>>), ArrayOf(<<<<"a">>>>)}
CfgOptions == {<<>>, <<<<"b">>>>}

Urls == {"u1", "u2"}
Labels == {"Tickers", "Select"}

Coords == {-Step, 0, Step, Step * MaxK}
Sizes == {Step, Step * MaxK}
Widths == {Step, Step * MaxK}
Heights == {Step, Step * MaxK - 2}
Rects == [left : Coords, top : Coords, width : Widths]

Keys == {"Enter", " ", "ArrowDown", "ArrowUp", "Escape", "a"}

NoEvent == [name |-> "none", opt |-> <<>>, key |-> "", before |-> <<>>]
Event(n, o, k) == [name |-> n, opt |-> o, key |-> k, before |-> selected]

NoRaf == [pending |-> FALSE, maxPanelHeight |-> 0]

-----------------------------------------------------------------------------
(* OptionSourceResolver: initial state and the options sync effect *)

hasValues(v) == v.isArray /\ Len(v.items) > 0

\* useState(values || options): an empty array is truthy
initialOptions(v, o) == IF v.isArray THEN v.items ELSE o

\* useEffect(..., [values, options, dataUrl])
syncEffect(v, o, u, cur) ==
    IF hasValues(v) THEN v.items
    ELSE IF u = NULL THEN o
    ELSE cur

-----------------------------------------------------------------------------
(* RemoteFetcher: the fetch effect and load() *)

\* The guard forgets the values list
fetchSkippedUrlOnly(v, u) == u = NULL

\* The early return of the fetch effect
fetchSkipped(v, u) == u = NULL \/ hasValues(v)

\* The staleness flag is never consulted
isCancelledNever(f) == FALSE

\* The `cancelled` flag of the closure of load()
isCancelled(f) == f.cancelled

\* The clean-up of the previous run: cancelled = true
cleanup(fs) == {[f EXCEPT !.cancelled = TRUE] : f \in fs}

\* The characters of the model in collation order: white space, punctuation,
\* digits, letters
Collation == <<" ", ",", "[", "]", "0", "1", "2", "3", "4", "5", "6", "7", "8", "9",
               "a", "b", "c", "e", "j", "l", "n", "o", "t", "u">>

\* The primary collation weight of a character: case is ignored
charRank(c) == CHOOSE i \in 1..Len(Collation) : Collation[i] = lowerChar(c)

\* a.localeCompare(b, undefined, {sensitivity: "base"}) < 0
RECURSIVE localeLess(_, _)
localeLess(a, b) ==
    IF b = <<>> THEN FALSE
    ELSE IF a = <<>> THEN TRUE
    ELSE IF charRank(Head(a)) # charRank(Head(b))
         THEN charRank(Head(a)) < charRank(Head(b))
    ELSE localeLess(Tail(a), Tail(b))

\* Stable insertion of x into the sorted array arr
RECURSIVE insertSorted(_, _)
insertSorted(arr, x) ==
    IF arr = <<>> THEN <<x>>
    ELSE IF localeLess(x, Head(arr)) THEN <<x>> \o arr
    ELSE <<Head(arr)>> \o insertSorted(Tail(arr), x)

\* Array.prototype.sort with the localeCompare comparator (stable)
RECURSIVE sortOptions(_)
sortOptions(arr) ==
    IF arr = <<>> THEN <<>>
    ELSE insertSorted(sortOptions(SubSeq(arr, 1, Len(arr) - 1)), arr[Len(arr)])

\* The sort is left out
uniqueValuesUnsorted(fetchedValues) == uniqueOf(fetchedValues)

\* uniqueValues: Array.from(new Set(fetchedValues)), then sort
uniqueValues(fetchedValues) == sortOptions(uniqueOf(fetchedValues))

-----------------------------------------------------------------------------
(* The JSON body of the response and its conversion to option labels *)

Undefined == [t |-> "undefined"]
JNull == [t |-> "null"]
JStr(s) == [t |-> "string", s |-> s]
JNum(n) == [t |-> "number", n |-> n]
JObj(fs) == [t |-> "object", fields |-> fs]
JArr(xs) == [t |-> "array", items |-> xs]

\* v == null (null or undefined)
isNullish(v) == v.t \in {"null", "undefined"}

\* typeof v === "object"
typeofObject(v) == v.t \in {"object", "array", "null"}

\* Boolean(v)
truthy(v) ==
    IF isNullish(v) THEN FALSE
    ELSE IF v.t = "string" THEN v.s # <<>>
    ELSE IF v.t = "number" THEN v.n # 0
    ELSE TRUE

\* item.name, for an item that is not null: a property that is missing, or read
\* off a primitive, is undefined
getProp(item, name) ==
    IF item.t = "object" /\ name \in DOMAIN item.fields
    THEN item.fields[name]
    ELSE Undefined

Digits == <<"0", "1", "2", "3", "4", "5", "6", "7", "8", "9">>

\* String(n) of a natural number
RECURSIVE numberToString(_)
numberToString(n) ==
    IF n < 10 THEN <<Digits[n + 1]>>
    ELSE numberToString(n \div 10) \o <<Digits[(n % 10) + 1]>>

\* String(v): the string conversion of a value
RECURSIVE stringOf(_)
stringOf(v) ==
    IF v.t = "string" THEN v.s
    ELSE IF v.t = "number" THEN numberToString(v.n)
    ELSE IF v.t = "null" THEN <<"n", "u", "l", "l">>
    ELSE IF v.t = "array"
    THEN IF v.items = <<>> THEN <<>>
         ELSE LET elem(x) == IF isNullish(x) THEN <<>> ELSE stringOf(x)
                  init == SubSeq(v.items, 1, Len(v.items) - 1)
              IN IF init = <<>> THEN elem(v.items[1])
                 ELSE stringOf(JArr(init)) \o <<",">> \o elem(v.items[Len(v.items)])
    ELSE <<"[", "o", "b", "j", "e", "c", "t", " ", "O", "b", "j", "e", "c", "t", "]">>

\* The properties buildLabel reads for a label, in the order of its ?? chain
hintFields(l) ==
    IF l = "Tickers" THEN <<"Symbol", "symbol", "Value", "value">>
    ELSE IF l = "Industry" THEN <<"Industry", "industry">>
    ELSE IF l = "Sector" THEN <<"Sector", "sector">>
    ELSE <<>>

\* item.A ?? item.b ?? ... ?? null
RECURSIVE coalesce(_, _)
coalesce(item, names) ==
    IF names = <<>> THEN JNull
    ELSE LET v == getProp(item, Head(names))
         IN IF isNullish(v) THEN coalesce(item, Tail(names)) ELSE v

\* buildLabel(item) throws a TypeError: a property of null is read
buildLabelThrows(item, l) == hintFields(l) # <<>> /\ isNullish(item)

\* buildLabel(item) when it returns: a string, or null
buildLabel(item, l) ==
    LET v == coalesce(item, hintFields(l))
    IN IF isNullish(v) THEN JNull ELSE JStr(stringOf(v))

\* The array the conversion reads: data, or data.symbols
hasList(data) ==
    \/ data.t = "array"
    \/ truthy(data) /\ getProp(data, "symbols").t = "array"

listOf(data) ==
    IF data.t = "array" THEN data.items ELSE getProp(data, "symbols").items

\* The branch that maps buildLabel over the array
objectBranch(data) ==
    hasList(data) /\ Len(listOf(data)) > 0 /\ typeofObject(listOf(data)[1])

\* The conversion throws inside the try block
conversionThrows(data, l) ==
    /\ objectBranch(data)
    /\ \E i \in 1..Len(listOf(data)) : buildLabelThrows(listOf(data)[i], l)

\* fetchedValues, when the conversion does not throw
fetchedValues(data, l) ==
    IF ~hasList(data) THEN <<>>
    ELSE LET xs == listOf(data)
         IN IF objectBranch(data)
            THEN LET labels == [i \in 1..Len(xs) |-> buildLabel(xs[i], l)]
                     kept == SelectSeq(labels, truthy)
                 IN [i \in 1..Len(kept) |-> kept[i].s]
            ELSE [i \in 1..Len(xs) |-> stringOf(xs[i])]

\* err.message of the TypeError
TypeErrorMessage == "TypeError"

\* Response bodies
PrimPool == {JStr(<<"b">>), JStr(<<"A">>), JNum(10)}

ObjPool ==
    { JObj([Symbol |-> JStr(<<"b">>)]),
      JObj([symbol |-> JStr(<<"A">>)]),
      JObj([Symbol |-> JNull, symbol |-> JStr(<<"a">>)]),
      JObj([Value |-> JStr(<<"a">>)]),
      JObj([Industry |-> JStr(<<"b">>), sector |-> JStr(<<"A">>)]),
      JObj([Symbol |-> JStr(<<>>)]),
      JObj([name |-> JStr(<<"a">>)]) }

ElemPool == PrimPool \cup ObjPool \cup {JNull}

PayloadLists == SeqsUpTo(ElemPool, MaxPayloadLen)

Payloads ==
    {JArr(xs) : xs \in PayloadLists}
      \cup {JObj([symbols |-> JArr(xs)]) : xs \in PayloadLists}
      \cup {JNull, JNum(0), JNum(10), JStr(<<"a">>), JObj([name |-> JStr(<<"a">>)]),
            JObj([symbols |-> JStr(<<"a">>)]), JObj([symbols |-> JNull])}

\* A body that is an array of strings
StringArray(items) == JArr([i \in 1..Len(items) |-> JStr(items[i])])

Hints == {"Tickers", "Industry", "Sector", "Select"}

-----------------------------------------------------------------------------
(* SelectionModel *)

\* Single-select clears whenever the option is among the selected ones
toggleOptionClearIfIncluded(opt) ==
    IF multiSelect
    THEN IF arrayIncludes(selected, opt)
         THEN SelectSeq(selected, LAMBDA s : s # opt)
         ELSE selected \o <<opt>>
    ELSE IF arrayIncludes(selected, opt) THEN <<>> ELSE <<opt>>

\* Multi-select prepends a new option
toggleOptionPrepend(opt) ==
    IF multiSelect
    THEN IF arrayIncludes(selected, opt)
         THEN SelectSeq(selected, LAMBDA s : s # opt)
         ELSE <<opt>> \o selected
    ELSE IF Len(selected) = 1 /\ selected[1] = opt THEN <<>> ELSE <<opt>>

\* Multi-select appends without looking
toggleOptionAppendAlways(opt) ==
    IF multiSelect
    THEN selected \o <<opt>>
    ELSE IF Len(selected) = 1 /\ selected[1] = opt THEN <<>> ELSE <<opt>>

\* The `next` that toggleOption passes to onChange
toggleOption(opt) ==
    IF multiSelect
    THEN IF arrayIncludes(selected, opt)
         THEN SelectSeq(selected, LAMBDA s : s # opt)
         ELSE selected \o <<opt>>
    ELSE IF Len(selected) = 1 /\ selected[1] = opt THEN <<>> ELSE <<opt>>

\* Select-all over the whole effective list
selectAllEverything == uniqueOf(selected \o effectiveOptions)

\* The array that selectAll passes to onChange
selectAll == uniqueOf(selected \o filtered)

\* The array that clearAll passes to onChange
clearAll == <<>>

-----------------------------------------------------------------------------
(* PlacementEngine *)

pad == 8

Min(a, b) == IF a < b THEN a ELSE b
Max(a, b) == IF a > b THEN a ELSE b

\* The width is not limited to the viewport
computePlacementWide(r, w, h, mph) ==
    LET width == r.width
        left  == Max(pad, Min(r.left, w - width - pad))
        maxH  == Min(mph, h - pad * 2)
        top   == Min(r.top, h - pad)
    IN [top |-> top, left |-> left, width |-> width, maxHeight |-> maxH]

\* The style computePlacement passes to setPanelStyle
computePlacement(r, w, h, mph) ==
    LET width == Min(r.width, w - pad * 2)
        left  == Max(pad, Min(r.left, w - width - pad))
        maxH  == Min(mph, h - pad * 2)
        top   == Min(r.top, h - pad)
    IN [top |-> top, left |-> left, width |-> width, maxHeight |-> maxH]

initialPanelStyle(mph) ==
    [top |-> -9999, left |-> -9999, width |-> 0, maxHeight |-> mph]

-----------------------------------------------------------------------------
(* Mount *)

\* App: useState of filters
initialFilters == [selectedSectors |-> <<>>, selectedIndustries |-> <<>>]

\* DataProvider: the state of the first render; App passes "/df_symbols.csv"
initialProvider ==
    [csvUrl |-> "/df_symbols.csv", rows |-> <<>>, loading |-> TRUE, error |-> NULL,
     mounted |-> TRUE]

\* A call of loadCsv() and the `cancelled` flag of its effect run
NewCsvLoad(id, u) == [id |-> id, csvUrl |-> u, cancelled |-> FALSE]

NewFetch(id, l) == [id |-> id, label |-> l, cancelled |-> FALSE, stage |-> "fetch"]

\* The state after the first render and its effects
InitWith(v, o, u, l, m, mph, r, w, h) ==
    /\ values = v /\ options = o /\ dataUrl = u /\ label = l
    /\ selected = <<>> /\ multiSelect = m /\ maxPanelHeight = mph
    /\ open = FALSE /\ query = <<>> /\ hoverIdx = -1
    /\ effectiveOptions = syncEffect(v, o, u, initialOptions(v, o))
    /\ loading = ~fetchSkipped(v, u)
    /\ loadError = NULL
    /\ panelStyle = initialPanelStyle(mph)
    /\ fetches = IF fetchSkipped(v, u) THEN {} ELSE {NewFetch(1, l)}
    /\ loads = IF fetchSkipped(v, u) THEN 0 ELSE 1
    /\ onChangeCalls = <<>>
    /\ rect = r /\ innerWidth = w /\ innerHeight = h
    /\ raf = NoRaf
    /\ listeners = [resize |-> 0, scroll |-> 0, mousedown |-> 1]
    /\ mounted = TRUE
    /\ lastEvent = NoEvent
    /\ commits = 0
    /\ appFilters = initialFilters
    /\ panelIndustries = initialFilters.selectedIndustries
    /\ provider = initialProvider
    /\ csvLoads = {NewCsvLoad(1, initialProvider.csvUrl)}
    /\ csvCount = 1

-----------------------------------------------------------------------------
(* Prop changes: render, effect clean-ups, effects *)

selectionVars == <<selected, multiSelect, onChangeCalls>>
panelVars == <<open, query, hoverIdx, panelStyle, raf, maxPanelHeight>>
geometry == <<rect, innerWidth, innerHeight>>
lifecycle == <<listeners, mounted>>

\* useEffect(..., [dataUrl, label, values]): clean-up of the previous run, then
\* the effect with the new props
fetchEffect(v, u, l) ==
    /\ commits' = 0
    /\ IF fetchSkipped(v, u)
       THEN /\ fetches' = cleanup(fetches)
            /\ UNCHANGED <<loading, loadError, loads>>
       ELSE /\ loads < MaxLoads
            /\ fetches' = cleanup(fetches) \cup {NewFetch(loads + 1, l)}
            /\ loads' = loads + 1
            /\ loading' = TRUE
            /\ loadError' = NULL

\* The host passes a new values array (a new identity, whatever its content),
\* or null instead of an array
SetValues(v) ==
    /\ mounted
    /\ ~(v = NullArray /\ values = NullArray)
    /\ values' = v
    /\ effectiveOptions' = syncEffect(v, options, dataUrl, effectiveOptions)
    /\ fetchEffect(v, dataUrl, label)
    /\ UNCHANGED lastEvent
    /\ UNCHANGED <<options, dataUrl, label, selectionVars, panelVars, geometry, page,
                   lifecycle>>

\* The host passes a new options array
SetOptions(o) ==
    /\ mounted
    /\ options' = o
    /\ effectiveOptions' = syncEffect(values, o, dataUrl, effectiveOptions)
    /\ UNCHANGED lastEvent
    /\ UNCHANGED <<values, dataUrl, label, selectionVars, panelVars, geometry, page,
                   lifecycle, loading, loadError, fetches, loads, commits>>

\* The host passes another dataUrl
SetDataUrl(u) ==
    /\ mounted
    /\ u # dataUrl
    /\ dataUrl' = u
    /\ effectiveOptions' = syncEffect(values, options, u, effectiveOptions)
    /\ fetchEffect(values, u, label)
    /\ UNCHANGED lastEvent
    /\ UNCHANGED <<values, options, label, selectionVars, panelVars, geometry, page,
                   lifecycle>>

\* The host passes another label
SetLabel(l) ==
    /\ mounted
    /\ l # label
    /\ label' = l
    /\ fetchEffect(values, dataUrl, l)
    /\ UNCHANGED lastEvent
    /\ UNCHANGED <<values, options, dataUrl, effectiveOptions, selectionVars,
                   panelVars, geometry, page, lifecycle>>

-----------------------------------------------------------------------------
(* load(): the steps of one fetch *)

ErrorMessages == {"HTTP 500", ""}

\* For the history: whether the clean-up of its effect run had run
staleness(f) == IF f.cancelled THEN "stale" ELSE "current"

fetchFrame == <<props, open, query, hoverIdx, panelStyle, onChangeCalls, geometry, page,
                raf, loads, lifecycle>>

\* await fetch(dataUrl) resolves with res.ok
fetchResolves(f) ==
    /\ f \in fetches /\ f.stage = "fetch"
    /\ fetches' = (fetches \ {f}) \cup {[f EXCEPT !.stage = "json"]}
    /\ UNCHANGED lastEvent
    /\ UNCHANGED <<fetchFrame, loading, loadError, effectiveOptions, commits>>

\* The catch block keeps the options it had
loadThrowsKeepOptions(f, msg) ==
    /\ f \in fetches
    /\ fetches' = fetches \ {f}
    /\ IF isCancelled(f)
       THEN UNCHANGED <<loading, loadError, effectiveOptions, commits>>
       ELSE /\ loadError' = (IF msg = "" THEN "Failed to load symbols" ELSE msg)
            /\ UNCHANGED effectiveOptions
            /\ loading' = FALSE
            /\ commits' = commits + 1
    /\ lastEvent' = Event("loadThrows", <<>>, staleness(f))
    /\ UNCHANGED fetchFrame

\* fetch rejects, res.ok is false, or res.json() rejects: catch and finally
loadThrows(f, msg) ==
    /\ f \in fetches
    /\ fetches' = fetches \ {f}
    /\ IF isCancelled(f)
       THEN UNCHANGED <<loading, loadError, effectiveOptions, commits>>
       ELSE /\ loadError' = (IF msg = "" THEN "Failed to load symbols" ELSE msg)
            /\ effectiveOptions' = <<>>
            /\ loading' = FALSE
            /\ commits' = commits + 1
    /\ lastEvent' = Event("loadThrows", <<>>, staleness(f))
    /\ UNCHANGED fetchFrame

\* res.json() resolves with data: the conversion in the try block, catch and
\* finally
loadSucceeds(f, data) ==
    /\ f \in fetches /\ f.stage = "json"
    /\ fetches' = fetches \ {f}
    /\ IF isCancelled(f)
       THEN UNCHANGED <<loading, loadError, effectiveOptions, commits>>
       ELSE /\ IF conversionThrows(data, f.label)
               THEN /\ loadError' = TypeErrorMessage
                    /\ effectiveOptions' = <<>>
               ELSE /\ effectiveOptions' = uniqueValues(fetchedValues(data, f.label))
                    /\ UNCHANGED loadError
            /\ loading' = FALSE
            /\ commits' = commits + 1
    /\ lastEvent' = Event("loadSucceeds", IF isCancelled(f) THEN JNull ELSE data,
                          staleness(f))
    /\ UNCHANGED fetchFrame

-----------------------------------------------------------------------------
(* User events.  The host re-renders after an onChange call before the next
   event is dispatched, so a handler runs when no call is pending, and only
   while the component is mounted. *)

Idle == mounted /\ onChangeCalls = <<>>

configVars == <<values, options, dataUrl, label>>
fetchVars == <<loading, loadError, fetches, loads, commits>>

place == computePlacement(rect, innerWidth, innerHeight, maxPanelHeight)

\* The callback is invoked twice
onChangeTwice(next) == onChangeCalls' = Append(Append(onChangeCalls, next), next)

\* onChange?.(next)
onChange(next) == onChangeCalls' = Append(onChangeCalls, next)

\* The clean-up of the layout effect never runs
layoutEffectNoCleanup(wasOpen, isOpen) ==
    [listeners EXCEPT !.resize = @ + (IF isOpen THEN 1 ELSE 0),
                      !.scroll = @ + (IF isOpen THEN 1 ELSE 0)]

\* useLayoutEffect(..., [open, maxPanelHeight]) after a commit that changed one
\* of the two: the clean-up of the previous run removes the listeners that run
\* added (it added them when the panel was open), then the effect adds its own
\* when the panel is open
layoutEffect(wasOpen, isOpen) ==
    [listeners EXCEPT !.resize = (@ - (IF wasOpen THEN 1 ELSE 0)) + (IF isOpen THEN 1 ELSE 0),
                      !.scroll = (@ - (IF wasOpen THEN 1 ELSE 0)) + (IF isOpen THEN 1 ELSE 0)]

\* The panel opens with the style it had
openPanelNoPlacement ==
    /\ UNCHANGED panelStyle
    /\ open' = TRUE
    /\ raf' = [pending |-> TRUE, maxPanelHeight |-> maxPanelHeight]
    /\ listeners' = layoutEffect(FALSE, TRUE)

\* computePlacement(); setOpen(true); requestAnimationFrame(...); then the
\* layout effect of the commit that opens the panel calls place() and adds
\* the listeners
openPanel ==
    /\ panelStyle' = place
    /\ open' = TRUE
    /\ raf' = [pending |-> TRUE, maxPanelHeight |-> maxPanelHeight]
    /\ listeners' = layoutEffect(FALSE, TRUE)

\* setOpen(false), then the clean-up of the layout effect
closePanel ==
    /\ open' = FALSE
    /\ listeners' = layoutEffect(open, FALSE)

\* onClick of the toggle button
onToggleClick ==
    /\ Idle
    /\ IF ~open THEN openPanel
       ELSE closePanel /\ UNCHANGED <<panelStyle, raf>>
    /\ lastEvent' = Event("onToggleClick", <<>>, "")
    /\ UNCHANGED <<configVars, fetchVars, selectionVars, geometry, page, query, hoverIdx,
                   effectiveOptions, maxPanelHeight, mounted>>

\* Enter never finds an option
hasHoveredNever == FALSE

\* const opt = filtered[hoverIdx]; opt != null
hasHovered == hoverIdx >= 0 /\ hoverIdx < Len(filtered)

\* onKeyDown of the root element
onKeyDown(key) ==
    /\ Idle
    /\ lastEvent' = IF open /\ key = "Enter" /\ hasHovered
                    THEN Event("toggleOption", filtered[hoverIdx + 1], key)
                    ELSE Event("onKeyDown", <<>>, key)
    /\ UNCHANGED <<configVars, fetchVars, geometry, page, query, effectiveOptions,
                   maxPanelHeight, selected, multiSelect, mounted>>
    /\ IF ~open /\ key \in {"Enter", " ", "ArrowDown"}
       THEN /\ openPanel
            /\ hoverIdx' = 0
            /\ UNCHANGED onChangeCalls
       ELSE IF ~open
       THEN UNCHANGED <<open, hoverIdx, panelStyle, raf, onChangeCalls, listeners>>
       ELSE IF key = "Escape"
       THEN /\ closePanel
            /\ UNCHANGED <<hoverIdx, panelStyle, raf, onChangeCalls>>
       ELSE /\ UNCHANGED <<open, panelStyle, raf, listeners>>
            /\ hoverIdx' =
                 IF key = "ArrowDown" THEN Min(hoverIdx + 1, Len(filtered) - 1)
                 ELSE IF key = "ArrowUp" THEN Max(hoverIdx - 1, 0)
                 ELSE hoverIdx
            /\ IF key = "Enter" /\ hasHovered
               THEN onChange(toggleOption(filtered[hoverIdx + 1]))
               ELSE UNCHANGED onChangeCalls

\* onChange of the search input (rendered while open, disabled while loading
\* an empty list)
onQueryChange(q) ==
    /\ Idle
    /\ open
    /\ ~(loading /\ Len(effectiveOptions) = 0)
    /\ q # query
    /\ query' = q
    /\ hoverIdx' = 0
    /\ lastEvent' = Event("onQueryChange", q, "")
    /\ UNCHANGED <<configVars, fetchVars, selectionVars, geometry, page, open,
                   effectiveOptions, panelStyle, raf, maxPanelHeight, lifecycle>>

\* onMouseEnter of the option at index idx of the filtered list
onMouseEnter(idx) ==
    /\ Idle
    /\ open
    /\ idx \in 0..(Len(filtered) - 1)
    /\ hoverIdx' = idx
    /\ lastEvent' = Event("onMouseEnter", <<>>, "")
    /\ UNCHANGED <<configVars, fetchVars, selectionVars, geometry, page, open, query,
                   effectiveOptions, panelStyle, raf, maxPanelHeight, lifecycle>>

uiFrame == <<configVars, fetchVars, geometry, page, state, raf, maxPanelHeight,
             selected, multiSelect, lifecycle>>

\* onClick of the option at index idx of the filtered list
onOptionClick(idx) ==
    /\ Idle
    /\ open
    /\ idx \in 0..(Len(filtered) - 1)
    /\ onChange(toggleOption(filtered[idx + 1]))
    /\ lastEvent' = Event("toggleOption", filtered[idx + 1], "click")
    /\ UNCHANGED uiFrame

\* onClick of the All button (disabled when the filtered list is empty)
onSelectAllClick ==
    /\ Idle
    /\ open
    /\ Len(filtered) > 0
    /\ onChange(selectAll)
    /\ lastEvent' = Event("selectAll", <<>>, "")
    /\ UNCHANGED uiFrame

\* onClick of the Clear button (disabled when nothing is selected)
onClearAllClick ==
    /\ Idle
    /\ open
    /\ Len(selected) > 0
    /\ onChange(clearAll)
    /\ lastEvent' = Event("clearAll", <<>>, "")
    /\ UNCHANGED uiFrame

\* mousedown on the document, outside the root element and the panel, while
\* the listener is registered
onDocClick ==
    /\ Idle
    /\ listeners.mousedown > 0
    /\ closePanel
    /\ lastEvent' = Event("onDocClick", <<>>, "")
    /\ UNCHANGED <<configVars, fetchVars, selectionVars, geometry, page, query, hoverIdx,
                   effectiveOptions, panelStyle, raf, maxPanelHeight, mounted>>

-----------------------------------------------------------------------------
(* The host: App and FiltersPanel around the Sector dropdown *)

\* App: onFiltersChange merges a partial update into filters
onFiltersChange(prev, partialOrFull) ==
    [k \in DOMAIN prev |->
        IF k \in DOMAIN partialOrFull THEN partialOrFull[k] ELSE prev[k]]

\* FiltersPanel: the selectedIndustries prop. FilterChartPanel does not pass
\* it, so every render of FiltersPanel evaluates the default, a new empty array
selectedIndustries == <<>>

\* FiltersPanel: the effect on [selectedIndustries]; the prop is a new array
\* in every render, so the effect runs after every render
syncIndustries(prev) ==
    LET sameLength == Len(prev) = Len(selectedIndustries)
        sameOrder == sameLength
                     /\ \A i \in 1..Len(prev) : prev[i] = selectedIndustries[i]
    IN IF sameOrder THEN prev ELSE selectedIndustries

\* FilterChartPanel: handleMarkerClick computes the next list of sectors
nextSelected(sectors, siteName) ==
    IF arrayIncludes(sectors, siteName)
    THEN SelectSeq(sectors, LAMBDA n : n # siteName)
    ELSE Append(sectors, siteName)

hostFrame == <<configVars, fetchVars, geometry, dataVars, state, raf, maxPanelHeight,
               multiSelect, lastEvent, lifecycle>>

\* The host stores the proposed selection and passes it back as `selected`
\* (FiltersPanel: handleSectorsChange), reports it to App, and renders again
HostApply ==
    /\ onChangeCalls # <<>>
    /\ selected' = Head(onChangeCalls)
    /\ onChangeCalls' = Tail(onChangeCalls)
    /\ appFilters' = onFiltersChange(appFilters,
                                     [selectedSectors |-> Head(onChangeCalls)])
    /\ panelIndustries' = syncIndustries(panelIndustries)
    /\ UNCHANGED hostFrame

\* The host ignores the proposed selection
HostIgnore ==
    /\ onChangeCalls # <<>>
    /\ onChangeCalls' = Tail(onChangeCalls)
    /\ UNCHANGED <<hostFrame, selected, appVars>>

\* A marker of the map is clicked: App's list of sectors is toggled and the
\* page renders again
handleMarkerClick(siteName) ==
    /\ Idle
    /\ appFilters' = onFiltersChange(appFilters,
           [selectedSectors |-> nextSelected(appFilters.selectedSectors, siteName)])
    /\ panelIndustries' = syncIndustries(panelIndustries)
    /\ UNCHANGED <<props, state, env, hist, dataVars>>

\* The Industry dropdown calls its onChange: the local list is set, App is
\* told, and the render that follows runs the effect on [selectedIndustries]
handleIndustryChange(updated) ==
    /\ Idle
    /\ appFilters' = onFiltersChange(appFilters, [selectedIndustries |-> updated])
    /\ panelIndustries' = syncIndustries(updated)
    /\ UNCHANGED <<props, state, env, hist, dataVars>>

-----------------------------------------------------------------------------
(* Viewport events and the layout effect *)

placeFrame == <<configVars, fetchVars, selectionVars, open, query, hoverIdx,
                effectiveOptions>>

\* The window is resized: every registered resize listener calls
\* computePlacement
Resize(w, h) ==
    /\ <<w, h>> # <<innerWidth, innerHeight>>
    /\ innerWidth' = w /\ innerHeight' = h
    /\ panelStyle' = IF listeners.resize > 0
                     THEN computePlacement(rect, w, h, maxPanelHeight)
                     ELSE panelStyle
    /\ UNCHANGED lastEvent
    /\ UNCHANGED <<placeFrame, page, rect, raf, maxPanelHeight, lifecycle>>

\* A scroll moves the toggle button: every registered (capturing) scroll
\* listener calls computePlacement
Scroll(r) ==
    /\ r # rect
    /\ rect' = r
    /\ panelStyle' = IF listeners.scroll > 0
                     THEN computePlacement(r, innerWidth, innerHeight, maxPanelHeight)
                     ELSE panelStyle
    /\ UNCHANGED lastEvent
    /\ UNCHANGED <<placeFrame, page, innerWidth, innerHeight, raf, maxPanelHeight, lifecycle>>

\* The callback passed to requestAnimationFrame runs: computePlacement of the
\* render that scheduled it, which returns at once when the toggle button is
\* gone
RafFrame ==
    /\ raf.pending
    /\ panelStyle' = IF mounted
                     THEN computePlacement(rect, innerWidth, innerHeight,
                                           raf.maxPanelHeight)
                     ELSE panelStyle
    /\ raf' = NoRaf
    /\ UNCHANGED lastEvent
    /\ UNCHANGED <<placeFrame, geometry, page, maxPanelHeight, lifecycle>>

\* The host passes another maxPanelHeight; the layout effect depends on it:
\* its clean-up runs, then the effect again
SetMaxPanelHeight(mph) ==
    /\ mounted
    /\ mph # maxPanelHeight
    /\ maxPanelHeight' = mph
    /\ panelStyle' = IF open
                     THEN computePlacement(rect, innerWidth, innerHeight, mph)
                     ELSE panelStyle
    /\ listeners' = layoutEffect(open, open)
    /\ UNCHANGED lastEvent
    /\ UNCHANGED <<placeFrame, geometry, page, raf, mounted>>

\* The clean-up of the outside-press effect is missing
UnmountKeepsMousedown ==
    /\ mounted
    /\ mounted' = FALSE
    /\ listeners' = layoutEffect(open, FALSE)
    /\ fetches' = cleanup(fetches)
    /\ UNCHANGED <<props, state, loads, onChangeCalls, geometry, page, raf, hist>>

\* The host removes the component: the clean-ups of the three effects run
Unmount ==
    /\ mounted
    /\ mounted' = FALSE
    /\ listeners' = [layoutEffect(open, FALSE) EXCEPT !.mousedown = @ - 1]
    /\ fetches' = cleanup(fetches)
    /\ UNCHANGED <<props, state, loads, onChangeCalls, geometry, page, raf, hist>>

-----------------------------------------------------------------------------
(* DataProvider *)

CsvUrls == {"/df_symbols.csv", "/other.csv"}
CsvErrors == {"HTTP 404", "Failed to fetch"}
RowLists == {<<>>, <<[Sector |-> <<"a">>]>>, <<[Sector |-> <<"a">>], [Sector |-> <<"b">>]>>}

providerFrame == <<props, state, env, commits, appVars>>

\* The clean-up of the effect on [csvUrl]
cancelCsv(ls) == {[l EXCEPT !.cancelled = TRUE] : l \in ls}

\* loadCsv() reaches the end of its try block with the parsed rows
loadCsvSucceeds(l, data) ==
    /\ l \in csvLoads
    /\ csvLoads' = csvLoads \ {l}
    /\ IF l.cancelled
       THEN UNCHANGED <<provider, lastEvent>>
       ELSE /\ provider' = [provider EXCEPT !.rows = data, !.loading = FALSE]
            /\ lastEvent' = Event("loadCsvSucceeds", <<>>, "")
    /\ UNCHANGED <<providerFrame, csvCount>>

\* loadCsv() catches: fetch rejected, the response was not ok, or text() rejected
loadCsvThrows(l, err) ==
    /\ l \in csvLoads
    /\ csvLoads' = csvLoads \ {l}
    /\ IF l.cancelled
       THEN UNCHANGED <<provider, lastEvent>>
       ELSE /\ provider' = [provider EXCEPT !.error = err, !.loading = FALSE]
            /\ lastEvent' = Event("loadCsvThrows", <<>>, "")
    /\ UNCHANGED <<providerFrame, csvCount>>

\* The host passes another csvUrl: the clean-up of the effect runs, then the
\* effect calls loadCsv() again
SetCsvUrl(u) ==
    /\ provider.mounted
    /\ u # provider.csvUrl
    /\ csvCount < MaxCsvLoads
    /\ provider' = [provider EXCEPT !.csvUrl = u]
    /\ csvLoads' = cancelCsv(csvLoads) \cup {NewCsvLoad(csvCount + 1, u)}
    /\ csvCount' = csvCount + 1
    /\ UNCHANGED <<providerFrame, lastEvent>>

\* DataProvider is removed: the clean-up of the effect runs
UnmountProvider ==
    /\ provider.mounted
    /\ provider' = [provider EXCEPT !.mounted = FALSE]
    /\ csvLoads' = cancelCsv(csvLoads)
    /\ UNCHANGED <<providerFrame, lastEvent, csvCount>>

-----------------------------------------------------------------------------
(* Specifications *)

Rect0 == [left |-> 0, top |-> 0, width |-> Step]

\* The search filter: option lists and search texts
InitFilter ==
    \E items \in SeqsUpTo(OptionPool, MaxOpts) :
        InitWith(ArrayOf(items), <<>>, NULL, "Select", TRUE, Step, Rect0,
                 Step * MaxK, Step * MaxK)

NextFilter ==
    \/ onToggleClick
    \/ \E q \in Queries : onQueryChange(q)

SpecFilter == InitFilter /\ [][NextFilter]_vars

\* The selection model: toggle, select all, clear, and the host
InitSelect ==
    \E items \in SeqsUpTo(SelPool, MaxSelOpts), m \in BOOLEAN :
        InitWith(ArrayOf(items), <<>>, NULL, "Select", m, Step, Rect0,
                 Step * MaxK, Step * MaxK)

NextSelect ==
    \/ onToggleClick
    \/ \E q \in SelQueries : onQueryChange(q)
    \/ \E idx \in 0..(MaxSelOpts - 1) : onOptionClick(idx)
    \/ onSelectAllClick
    \/ onClearAllClick
    \/ HostApply
    \/ HostIgnore

SpecSelect == InitSelect /\ [][NextSelect]_vars

\* Keyboard and pointer navigation
InitNav ==
    \E items \in SeqsUpTo(NavPool, MaxSelOpts) :
        InitWith(ArrayOf(items), <<>>, NULL, "Select", TRUE, Step, Rect0,
                 Step * MaxK, Step * MaxK)

NextNav ==
    \/ onToggleClick
    \/ \E key \in Keys : onKeyDown(key)
    \/ \E q \in SelQueries : onQueryChange(q)
    \/ \E idx \in 0..(MaxSelOpts - 1) : onMouseEnter(idx)
    \/ \E items \in SeqsUpTo(NavPool, MaxSelOpts) : SetValues(ArrayOf(items))
    \/ onDocClick
    \/ HostApply
    \/ HostIgnore

SpecNav == InitNav /\ [][NextNav]_vars

\* Placement of the floating panel
InitPlace ==
    \E r \in Rects, w \in Sizes, h \in Sizes, mph \in Heights :
        InitWith(ArrayOf(<<>>), <<>>, NULL, "Select", TRUE, mph, r, w, h)

NextPlace ==
    \/ onToggleClick
    \/ \E w \in Sizes, h \in Sizes : Resize(w, h)
    \/ \E r \in Rects : Scroll(r)
    \/ RafFrame
    \/ \E mph \in Heights : SetMaxPanelHeight(mph)

SpecPlace == InitPlace /\ [][NextPlace]_vars

\* Option sources and the remote fetch
InitFetch ==
    \E v \in CfgValues, o \in CfgOptions, u \in {NULL} \cup Urls, l \in Labels :
        InitWith(v, o, u, l, TRUE, Step, Rect0, Step * MaxK, Step * MaxK)

NextFetch ==
    \/ \E v \in CfgValues : SetValues(v)
    \/ \E o \in CfgOptions : SetOptions(o)
    \/ \E u \in {NULL} \cup Urls : SetDataUrl(u)
    \/ \E l \in Labels : SetLabel(l)
    \/ \E f \in fetches : fetchResolves(f)
    \/ \E f \in fetches, msg \in ErrorMessages : loadThrows(f, msg)
    \/ \E f \in fetches, data \in CfgLists : loadSucceeds(f, StringArray(data))

SpecFetch == InitFetch /\ [][NextFetch]_vars

\* The conversion of the response body
InitPayload ==
    \E l \in Hints :
        InitWith(NullArray, <<>>, "u1", l, TRUE, Step, Rect0, Step * MaxK, Step * MaxK)

NextPayload ==
    \/ \E f \in fetches : fetchResolves(f)
    \/ \E f \in fetches, msg \in ErrorMessages : loadThrows(f, msg)
    \/ \E f \in fetches, data \in Payloads : loadSucceeds(f, data)

SpecPayload == InitPayload /\ [][NextPayload]_vars

\* The life cycle of the panel and of the listeners
InitLife ==
    \E mph \in Heights, r \in {Rect0, [left |-> Step * MaxK, top |-> Step, width |-> Step]} :
        InitWith(ArrayOf(<<<<"a">>, <<"b">>>>), <<>>, NULL, "Select", TRUE, mph, r,
                 Step * MaxK, Step * MaxK)

NextLife ==
    \/ onToggleClick
    \/ \E key \in Keys : onKeyDown(key)
    \/ \E q \in SelQueries : onQueryChange(q)
    \/ \E idx \in 0..1 : onMouseEnter(idx)
    \/ onDocClick
    \/ \E mph \in Heights : SetMaxPanelHeight(mph)
    \/ \E r \in {Rect0, [left |-> Step * MaxK, top |-> Step, width |-> Step]} : Scroll(r)
    \/ RafFrame
    \/ HostApply
    \/ HostIgnore
    \/ Unmount

SpecLife == InitLife /\ [][NextLife]_vars

\* The page: the Sector dropdown, the Industry dropdown and the map
InitHost ==
    InitWith(ArrayOf(<<<<"a">>, <<"b">>>>), <<>>, NULL, "Sector", TRUE, Step, Rect0,
             Step * MaxK, Step * MaxK)

NextHost ==
    \/ onToggleClick
    \/ \E idx \in 0..1 : onOptionClick(idx)
    \/ onSelectAllClick
    \/ onClearAllClick
    \/ HostApply
    \/ \E siteName \in SelPool : handleMarkerClick(siteName)
    \/ \E updated \in IndustryLists : handleIndustryChange(updated)

SpecHost == InitHost /\ [][NextHost]_vars

\* The data provider
InitData ==
    InitWith(ArrayOf(<<>>), <<>>, NULL, "Sector", TRUE, Step, Rect0,
             Step * MaxK, Step * MaxK)

NextData ==
    \/ \E l \in csvLoads, data \in RowLists : loadCsvSucceeds(l, data)
    \/ \E l \in csvLoads, err \in CsvErrors : loadCsvThrows(l, err)
    \/ \E u \in CsvUrls : SetCsvUrl(u)
    \/ UnmountProvider

SpecData == InitData /\ [][NextData]_vars

\* The whole control
Init ==
    \E v \in CfgValues, o \in CfgOptions, u \in {NULL} \cup Urls, l \in Labels,
       m \in BOOLEAN, mph \in Heights, r \in Rects, w \in Sizes, h \in Sizes :
        InitWith(v, o, u, l, m, mph, r, w, h)

Next ==
    \/ NextFilter
    \/ NextSelect
    \/ NextNav
    \/ NextPlace
    \/ NextFetch
    \/ NextPayload
    \/ NextLife
    \/ NextHost
    \/ NextData

Spec == Init /\ [][Next]_vars

-----------------------------------------------------------------------------
(* Properties *)

Range(seq) == {seq[i] : i \in 1..Len(seq)}

NoDuplicates(seq) == \A i, j \in 1..Len(seq) : seq[i] = seq[j] => i = j

\* seq with every occurrence of x taken out
RECURSIVE Without(_, _)
Without(seq, x) ==
    IF seq = <<>> THEN <<>>
    ELSE IF Head(seq) = x THEN Without(Tail(seq), x)
    ELSE <<Head(seq)>> \o Without(Tail(seq), x)

\* The position of the first occurrence of x in seq
FirstIndex(seq, x) == CHOOSE i \in 1..Len(seq) : seq[i] = x /\ \A j \in 1..(i - 1) : seq[j] # x

\* A handler has called onChange and the host has not answered yet
Proposed(name) == lastEvent.name = name /\ onChangeCalls # <<>>

\* C1: in multi-select mode toggleOption(opt) passes Selection with opt appended
\* when opt is not selected, and Selection without opt, the other elements in
\* their order, when it is; the Selection the host supplied is left as it was.
C1_ToggleMulti ==
    (Proposed("toggleOption") /\ multiSelect) =>
        LET prev == lastEvent.before
            opt  == lastEvent.opt
            next == Head(onChangeCalls)
        IN /\ Len(onChangeCalls) = 1
           /\ selected = prev
           /\ opt \notin Range(prev) => next = Append(prev, opt)
           /\ opt \in Range(prev) => next = Without(prev, opt)

C1_Witness ==
    /\ Proposed("toggleOption") /\ multiSelect
    /\ Len(lastEvent.before) = 3
    /\ lastEvent.before[2] = lastEvent.opt
    /\ Len(Head(onChangeCalls)) = 2

\* C2: in single-select mode toggleOption(x) passes [] when the Selection is
\* exactly [x], and [x] in every other case, whatever the length of the Selection.
C2_ToggleSingle ==
    (Proposed("toggleOption") /\ ~multiSelect) =>
        LET prev == lastEvent.before
            x    == lastEvent.opt
            next == Head(onChangeCalls)
        IN next = IF prev = <<x>> THEN <<>> ELSE <<x>>

C2_Witness ==
    /\ Proposed("toggleOption") /\ ~multiSelect
    /\ Len(lastEvent.before) >= 2
    /\ lastEvent.opt \in Range(lastEvent.before)
    /\ Head(onChangeCalls) = <<lastEvent.opt>>

\* C3: selectAll passes a duplicate-free Selection whose elements are exactly
\* those of the Selection and of the filtered list: the selected elements keep
\* their positions, the new ones follow in the order of the filtered list, and
\* an option the query filters out is not added.
C3_SelectAll ==
    Proposed("selectAll") =>
        LET prev == lastEvent.before
            next == Head(onChangeCalls)
            n    == Len(prev)
        IN /\ NoDuplicates(next)
           /\ Range(next) = Range(prev) \cup Range(filtered)
           /\ Len(next) >= n
           /\ SubSeq(next, 1, n) = prev
           /\ \A i, j \in (n + 1)..Len(next) :
                  i < j => FirstIndex(filtered, next[i]) < FirstIndex(filtered, next[j])
           /\ \A o \in Range(effectiveOptions) :
                  (o \notin Range(filtered) /\ o \notin Range(prev)) => o \notin Range(next)

C3_Witness ==
    /\ Proposed("selectAll")
    /\ Len(lastEvent.before) >= 1
    /\ Len(Head(onChangeCalls)) > Len(lastEvent.before)
    /\ \E o \in Range(effectiveOptions) : o \notin Range(Head(onChangeCalls))

\* C4: in every reachable state HoverIndex lies in [-1, len(FilteredList) - 1].
C4_HoverInRange == hoverIdx >= -1 /\ hoverIdx <= Len(filtered) - 1

\* C5: the outcome of a fetch whose configuration has changed since it started
\* changes none of effectiveOptions, loadError and loading; at most one fetch is
\* current, and at most one result is committed per run of the fetch effect.
C5_StaleFetchDiscarded ==
    /\ [][(\E f \in fetches : f.cancelled /\ f \notin fetches')
            => UNCHANGED <<effectiveOptions, loadError, loading>>]_vars
    /\ [](Cardinality({f \in fetches : ~f.cancelled}) <= 1)
    /\ [](commits <= 1)

C5_Witness ==
    /\ lastEvent.name \in {"loadSucceeds", "loadThrows"}
    /\ lastEvent.key = "stale"
    /\ commits = 1
    /\ loadError = NULL
    /\ effectiveOptions # <<>>

\* C6: while values is a non-empty array no fetch of that configuration is in
\* flight and effectiveOptions equals values, whatever the options prop, the
\* dataUrl and the fetches started earlier do.
C6_ValuesWin ==
    hasValues(values) =>
        /\ effectiveOptions = values.items
        /\ \A f \in fetches : f.cancelled

C6_Witness ==
    /\ hasValues(values)
    /\ dataUrl # NULL
    /\ options # values.items
    /\ lastEvent.name = "loadSucceeds" /\ lastEvent.key = "stale"
    /\ fetches = {}
    /\ loading

InsideHorizontally(style, w, h) ==
    /\ pad <= style.left
    /\ style.left + style.width <= w - pad
    /\ style.maxHeight <= h - 2 * pad

C8_InsideVertically ==
    open => /\ pad <= panelStyle.top
            /\ panelStyle.top + panelStyle.maxHeight <= innerHeight - pad

\* The options whose lowercase form contains q, in order
RECURSIVE Matching(_, _)
Matching(opts, q) ==
    IF opts = <<>> THEN <<>>
    ELSE IF includes(toLowerCase(Head(opts)), q)
         THEN <<Head(opts)>> \o Matching(Tail(opts), q)
    ELSE Matching(Tail(opts), q)

\* C9 as stated: the filtered list is exactly the options whose lowercase form
\* contains the lowercase Query, whitespace included, in the order of the
\* effective list; only the empty Query returns the full list.
C9_FilterByQueryAsTyped ==
    filtered = Matching(effectiveOptions, toLowerCase(query))

\* C9 as amended: the filtered list is exactly the options whose lowercase form
\* contains the lowercase Query with its leading and trailing whitespace
\* removed, in the order of the effective list; a Query that is empty after
\* trimming returns the full list.
C9_FilterByTrimmedQuery ==
    /\ filtered = Matching(effectiveOptions, toLowerCase(trim(query)))
    /\ trim(query) = <<>> => filtered = effectiveOptions

C9_Witness ==
    /\ query = <<" ", "A">>
    /\ effectiveOptions = <<<<"b">>, <<"b", " ", "a">>, <<"A", "b">>>>
    /\ filtered = <<<<"b", " ", "a">>, <<"A", "b">>>>

\* C10: filtering is idempotent: filtering the filtered list with the same
\* Query gives the filtered list.
C10_FilterIdempotent == filterOptions(filtered, query) = filtered

C10_Witness ==
    /\ trim(query) # <<>>
    /\ filtered # <<>>
    /\ Len(filtered) < Len(effectiveOptions)
    /\ Len(filtered) >= 2


\* The load() of the current configuration has ended in its catch block
Failed == commits = 1 /\ lastEvent.name = "loadThrows" /\ lastEvent.key = "current"

\* C11: after the fetch of the current configuration has failed (HTTP status,
\* JSON parse error or network error), loadError is a message, effectiveOptions
\* is empty, loading is false and no request of this configuration is in flight;
\* a request is issued only in a step in which the host passes another dataUrl,
\* another label or a values prop.
C11_FailedNoRetry ==
    /\ [](Failed => /\ loadError \in {"HTTP 500", "Failed to load symbols"}
                    /\ effectiveOptions = <<>>
                    /\ ~loading
                    /\ \A f \in fetches : f.cancelled)
    /\ [][loads' # loads
            => \/ dataUrl' # dataUrl
               \/ label' # label
               \/ values' # values \/ values'.isArray]_vars

C11_Witness ==
    /\ Failed
    /\ loadError = "Failed to load symbols"
    /\ options # <<>>
    /\ effectiveOptions = <<>>
    /\ fetches = {}
    /\ loads = 2

\* The load() of the current configuration has committed the body it parsed
Committed == commits = 1 /\ lastEvent.name = "loadSucceeds" /\ lastEvent.key = "current"

IsPrimitive(x) == x.t \in {"string", "number"}

\* The recognized shapes: an array of primitives, an array of objects, or an
\* object whose symbols property is such an array
Recognized(data) ==
    /\ hasList(data)
    /\ \/ \A i \in 1..Len(listOf(data)) : IsPrimitive(listOf(data)[i])
       \/ \A i \in 1..Len(listOf(data)) : listOf(data)[i].t = "object"

\* The primary field name of a hint and its lowercase alias
PrimaryAlias(l) ==
    IF l = "Tickers" THEN <<"Symbol", "symbol">>
    ELSE IF l = "Industry" THEN <<"Industry", "industry">>
    ELSE IF l = "Sector" THEN <<"Sector", "sector">>
    ELSE <<>>

\* The field names of a hint, with the Value / value fall-back of the ticker hint
WithFallback(l) ==
    IF l = "Tickers" THEN PrimaryAlias(l) \o <<"Value", "value">> ELSE PrimaryAlias(l)

HasField(x, name) == name \in DOMAIN x.fields /\ x.fields[name].t # "null"

\* The labels of one object: the string form of its first field among names
FieldLabels(x, names) ==
    LET present == {i \in 1..Len(names) : HasField(x, names[i])}
    IN IF present = {} THEN {}
       ELSE LET first == CHOOSE i \in present : \A j \in present : i <= j
            IN {stringOf(x.fields[names[first]])}

\* The labels of a recognized list of elements
ReferenceLabels(xs, names) ==
    IF \A i \in 1..Len(xs) : IsPrimitive(xs[i])
    THEN {stringOf(xs[i]) : i \in 1..Len(xs)}
    ELSE UNION {FieldLabels(xs[i], names) : i \in 1..Len(xs)}

\* Labels of objects that are the empty string are dropped
NonEmptyLabels(xs, names) ==
    IF \A i \in 1..Len(xs) : IsPrimitive(xs[i])
    THEN ReferenceLabels(xs, names)
    ELSE ReferenceLabels(xs, names) \ {<<>>}

\* lst holds exactly the labels of S, once each, sorted without regard to case
IsSortedListOf(lst, S) ==
    /\ Range(lst) = S
    /\ NoDuplicates(lst)
    /\ \A i, j \in 1..Len(lst) : i < j => ~localeLess(lst[j], lst[i])

\* C12: a parsed body of none of the recognized shapes completes the fetch
\* with loadError = null, loading = false and no label other than those of its
\* well-formed elements.
C12_ShapeMismatchSilent ==
    (Committed /\ ~Recognized(lastEvent.opt)) =>
        /\ loadError = NULL
        /\ ~loading
        /\ \/ ~hasList(lastEvent.opt) /\ effectiveOptions = <<>>
           \/ /\ hasList(lastEvent.opt)
              /\ Len(effectiveOptions) <= Len(listOf(lastEvent.opt))

\* C13 as stated: for a recognized body the committed list is the sorted,
\* duplicate-free list of the labels, where an object gives the value of the
\* primary field of the hint, else of its lowercase alias.
C13_ReferencePrimaryAlias ==
    (Committed /\ Recognized(lastEvent.opt)) =>
        IsSortedListOf(effectiveOptions,
                       ReferenceLabels(listOf(lastEvent.opt), PrimaryAlias(label)))

\* C13 as amended: for a recognized body the committed list is the sorted,
\* duplicate-free list of the labels, where an object gives the value of the
\* first non-null field among the field names of the hint, which for the ticker
\* hint are Symbol, symbol, Value, value, and an object whose label is the
\* empty string is dropped like one that has none.
C13_ReferenceWithFallback ==
    (Committed /\ Recognized(lastEvent.opt)) =>
        /\ loadError = NULL
        /\ IsSortedListOf(effectiveOptions,
                          NonEmptyLabels(listOf(lastEvent.opt), WithFallback(label)))

C13_Witness ==
    /\ Committed
    /\ label = "Tickers"
    /\ lastEvent.opt = JArr(<<JObj([Symbol |-> JStr(<<"b">>)]),
                              JObj([symbol |-> JStr(<<"A">>)])>>)
    /\ effectiveOptions = <<<<"A">>, <<"b">>>>

\* C14: in the step in which values goes from a non-empty array to an empty
\* one or to null, effectiveOptions becomes the options prop when no dataUrl is
\* set, and otherwise a fetch is started and effectiveOptions holds nothing of
\* the old values until the remote result arrives.
C14_ValuesDoNotStick ==
    [][(hasValues(values) /\ ~hasValues(values')) =>
          IF dataUrl' = NULL
          THEN effectiveOptions' = options'
          ELSE /\ \E f \in fetches' : ~f.cancelled
               /\ effectiveOptions' = <<>>]_vars

SelectionEvents == {"toggleOption", "selectAll", "clearAll"}

\* C15: toggleOption, selectAll and clearAll call onChange exactly once and
\* change nothing else: selected stays what the host supplied until the host
\* answers, and is then the proposal or, when the host ignores it, what it was;
\* open, query, hoverIdx and effectiveOptions are left unchanged throughout.
C15_OnlyProposes ==
    /\ [](Len(onChangeCalls) <= 1)
    /\ [](onChangeCalls # <<>> => /\ lastEvent.name \in SelectionEvents
                                  /\ selected = lastEvent.before)
    /\ [][(lastEvent'.name \in SelectionEvents /\ lastEvent' # lastEvent)
            => /\ onChangeCalls = <<>> /\ Len(onChangeCalls') = 1
               /\ UNCHANGED <<selected, open, query, hoverIdx, effectiveOptions>>]_vars
    /\ [][onChangeCalls' # onChangeCalls
            => /\ \/ onChangeCalls = <<>> /\ selected' = selected
                  \/ onChangeCalls' = <<>> /\ selected' \in {selected, Head(onChangeCalls)}
               /\ UNCHANGED <<open, query, hoverIdx, effectiveOptions>>]_vars

C15_Witness ==
    /\ Proposed("selectAll")
    /\ open /\ query # <<>> /\ hoverIdx = 0
    /\ selected # <<>>
    /\ Head(onChangeCalls) # selected

\* C16: starting from the empty Selection, whatever toggleOption, selectAll and
\* clearAll propose and the host applies, in either mode and over any effective
\* list, no option occurs twice in the Selection or in a proposal.
C16_SelectionNoDuplicates ==
    /\ NoDuplicates(selected)
    /\ \A i \in 1..Len(onChangeCalls) : NoDuplicates(onChangeCalls[i])

C16_Witness ==
    /\ ~NoDuplicates(effectiveOptions)
    /\ multiSelect
    /\ lastEvent.name = "toggleOption" /\ Idle
    /\ arrayIncludes(lastEvent.before, lastEvent.opt)
    /\ Len(lastEvent.before) = 2
    /\ Len(selected) = 1

\* C17: the resize and the scroll listener are registered exactly while the
\* component is mounted and the panel is open: one registration of each while
\* open, none while closed and none after the unmount, across opening,
\* closing, changes of maxPanelHeight and the unmount.
C17_ViewportListeners ==
    /\ listeners.resize = (IF mounted /\ open THEN 1 ELSE 0)
    /\ listeners.scroll = (IF mounted /\ open THEN 1 ELSE 0)

C17_Witness ==
    /\ ~mounted
    /\ open
    /\ raf.pending
    /\ listeners.resize = 0 /\ listeners.scroll = 0

\* C18 as stated: the mousedown listener on the document is registered exactly
\* while the panel is open.
C18_MousedownWhileOpen ==
    listeners.mousedown = (IF mounted /\ open THEN 1 ELSE 0)

\* C18 as amended: the mousedown listener on the document is registered
\* exactly while the component is mounted, once, whether the panel is open or
\* closed; a press outside the control and the panel leaves the panel closed
\* and changes nothing else.
C18_MousedownWhileMounted ==
    /\ [](listeners.mousedown = (IF mounted THEN 1 ELSE 0))
    /\ [][(lastEvent'.name = "onDocClick" /\ lastEvent' # lastEvent)
            => /\ ~open'
               /\ UNCHANGED <<query, hoverIdx, selected, onChangeCalls,
                              effectiveOptions, panelStyle>>]_vars

C18_Witness ==
    /\ lastEvent.name = "onDocClick"
    /\ mounted /\ ~open
    /\ query # <<>>
    /\ listeners.mousedown = 1
    /\ listeners.resize = 0

\* C19: in every step that opens the panel the style is the placement computed
\* from the anchor box and the viewport of that moment and the query is kept;
\* an opening by Enter, Space or ArrowDown sets hoverIdx to 0 and an opening by
\* a click on the toggle keeps hoverIdx; no other key opens the panel; every
\* step that closes the panel keeps hoverIdx and query.
C19_OpenClose ==
    /\ [][(~open /\ open') =>
            /\ panelStyle' = computePlacement(rect', innerWidth', innerHeight',
                                              maxPanelHeight')
            /\ query' = query
            /\ \/ /\ lastEvent'.name = "onKeyDown"
                  /\ lastEvent'.key \in {"Enter", " ", "ArrowDown"}
                  /\ hoverIdx' = 0
               \/ /\ lastEvent'.name = "onToggleClick"
                  /\ hoverIdx' = hoverIdx]_vars
    /\ [][(open /\ ~open') => UNCHANGED <<hoverIdx, query>>]_vars

C19_Witness ==
    /\ open
    /\ lastEvent.name = "onToggleClick"
    /\ hoverIdx = 1
    /\ raf.pending
    /\ panelStyle = place
    /\ panelStyle.left # rect.left

\* The proposal of a toggle of x on the Selection prev
ExpectedToggle(prev, x) ==
    IF multiSelect
    THEN IF x \in Range(prev) THEN Without(prev, x) ELSE Append(prev, x)
    ELSE IF prev = <<x>> THEN <<>> ELSE <<x>>

\* C20: Enter while the panel is open calls onChange once, with the toggle of
\* filtered[hoverIdx], when hoverIdx addresses an element of the filtered list,
\* and does not call it when hoverIdx is -1 or past the end; the panel stays
\* open and hoverIdx is kept.  Enter while the panel is closed opens it and
\* calls nothing.
C20_EnterCommits ==
    [][onKeyDown("Enter") =>
         /\ open'
         /\ IF open /\ 0 <= hoverIdx /\ hoverIdx < Len(filtered)
            THEN onChangeCalls' = <<ExpectedToggle(selected, filtered[hoverIdx + 1])>>
            ELSE onChangeCalls' = <<>>
         /\ open => hoverIdx' = hoverIdx
         /\ selected' = selected]_vars

C20_Witness ==
    /\ open
    /\ lastEvent.name = "toggleOption" /\ lastEvent.key = "Enter"
    /\ hoverIdx = 1
    /\ Len(selected) = 1
    /\ Len(filtered) >= 2
    /\ onChangeCalls = <<Append(selected, filtered[2])>>

\* C21: loading is true only while a load() of the current configuration is in
\* flight; after a fetch has been cancelled because values became non-empty or
\* the dataUrl was removed, loading is false and the search input is enabled.
C21_LoadingOnlyInFlight ==
    /\ loading => \E f \in fetches : ~f.cancelled
    /\ fetchSkipped(values, dataUrl) => ~(loading /\ Len(effectiveOptions) = 0)

\* C22: loadError is non-null only when the load() of the current configuration
\* has failed; when no fetch applies to the configuration (values non-empty, or
\* no dataUrl) loadError is null.
C22_ErrorOfCurrentEpoch ==
    loadError # NULL => (~fetchSkipped(values, dataUrl) /\ commits = 1)

\* C23: with a dataUrl and without a non-empty values array, effectiveOptions
\* is empty until the load() of the current configuration has settled, from the
\* mount onward; the options prop is never shown.
C23_OptionsNeverWithEndpoint ==
    (dataUrl # NULL /\ ~hasValues(values) /\ commits = 0) => effectiveOptions = <<>>

\* C24: in single-select mode the Selection, which starts empty and changes
\* only as the host applies the proposals of toggleOption, selectAll and
\* clearAll, has at most one element.
C24_SingleSelectAtMostOne ==
    ~multiSelect => Len(selected) <= 1


\* C25: whenever no onChange call is being handled, the list shown by the
\* Sector dropdown (FiltersPanel's local selectedSectors) equals App's
\* filters.selectedSectors, which drives the map.
C25_SectorsInSync ==
    Idle => selected = appFilters.selectedSectors

\* C26: FiltersPanel's local selectedIndustries, the list shown by the Industry
\* dropdown, equals the selection it emitted last, which is App's
\* filters.selectedIndustries.
C26_IndustriesInSync ==
    Idle => panelIndustries = appFilters.selectedIndustries

\* C27: in DataProvider, loading is true while a loadCsv() that was not
\* cancelled is in flight; a cancelled loadCsv() changes none of rows, error,
\* loading when it settles; and after a load that succeeded error is null.
C27_ProviderState ==
    /\ []((\E l \in csvLoads : ~l.cancelled) => provider.loading)
    /\ [][\A l \in csvLoads : (l.cancelled /\ l \notin csvLoads') => provider' = provider]_vars
    /\ [](lastEvent.name = "loadCsvSucceeds" => provider.error = NULL)

\* The part of C27 about cancelled loads
C27_CancelledIsSilent ==
    [][\A l \in csvLoads : (l.cancelled /\ l \notin csvLoads') => provider' = provider]_vars


=============================================================================
